---------------------------- MODULE Spec2Model ----------------------------
(***************************************************************************)
(* The execute-command streaming bridge and the cancel-execution endpoint  *)
(* of lovable-ui, with the shared runningProcesses map between them.       *)
(*                                                                         *)
(*   execute-command : src/lovable-ui/app/api/execute-command/route.ts     *)
(*   executeInSandbox: src/lovable-ui/e2b_utils/index.ts                   *)
(*   cancel-execution: src/unnamed/part_008 (lines 326-393)                *)
(*   runningProcesses: src/lovable-ui/lib/process-tracker.ts               *)
(*                                                                         *)
(* Node runs every handler on one event loop: the code between two awaits  *)
(* is one atomic step, and every await is a point where another handler    *)
(* (or the remote sandbox) may act.  Each action below is one such step.   *)
(***************************************************************************)
EXTENDS Integers, Sequences, FiniteSets, TLC

(***************************************************************************)
(* Bounds of the model.                                                    *)
(***************************************************************************)
NumExec == 1
NumCancel == 2
MaxOut == 1

Execs == 1..NumExec
\* One execution more, for the specification of two concurrent executions.
AllExecs == 1..(NumExec + 1)
\* No execution; no PID.
NoExec == 0
Cancels == 1..NumCancel
\* A requestId that no execution was ever given.
NeverIssued == NumExec + 2
\* The requestId of the deployment.
DeployId == NumExec + 3
RequestIds == Execs \cup {NeverIssued}

(***************************************************************************)
(* Output lines are sequences of tokens; a marker the code looks for with  *)
(* String.includes is one token.                                           *)
(***************************************************************************)
WS == "ws"
SessionMarker == "[System]: Session started:"
ClaudeMarker == "__CLAUDE_MESSAGE__"
ToolUseMarker == "__TOOL_USE__"
ToolResultMarker == "__TOOL_RESULT__"
ClaudeTag == "[Claude]:"
ToolTag == "[Tool]:"
DoubleUnderscore == "__"
ErrorWord == "Error"
FailedWord == "Failed"
\* Tokens that are a well-formed session id / a well-formed JSON object.
SessionIdTokens == {"id:abc-123"}
JsonTokens == {"json:{name:Read,input:{file_path:a.txt}}", "json:{content:hi}"}
\* A token that JSON.parse rejects.
MalformedJson == "json:{name:Read,"
\* What JSON.parse makes of a well-formed token: the fields the bridge reads.
JsonParse(tok) ==
    CASE tok = "json:{name:Read,input:{file_path:a.txt}}" ->
             [name |-> "Read", input |-> "{file_path:a.txt}", content |-> "undefined"]
      [] tok = "json:{content:hi}" ->
             [name |-> "undefined", input |-> "undefined", content |-> "hi"]

StdoutLines == {<<"hello">>}
StderrLines == {<<ErrorWord, ": connection refused">>}

Includes(line, tok) ==
    \E i \in 1..Len(line) :
        \/ line[i] = tok
        \* the markers themselves contain a double underscore
        \/ tok = DoubleUnderscore /\ line[i] \in {ClaudeMarker, ToolUseMarker, ToolResultMarker}

IndexOf(line, tok) == CHOOSE i \in 1..Len(line) : line[i] = tok /\ \A j \in 1..(i-1) : line[j] # tok

RECURSIVE TrimLeft(_)
TrimLeft(line) == IF line # <<>> /\ Head(line) = WS THEN TrimLeft(Tail(line)) ELSE line

RECURSIVE TrimRight(_)
TrimRight(line) ==
    IF line # <<>> /\ line[Len(line)] = WS THEN TrimRight(SubSeq(line, 1, Len(line) - 1)) ELSE line

Trim(line) == TrimRight(TrimLeft(line))

\* JSON.parse(line.substring(jsonStart).trim()): succeeds when what follows the
\* marker is, after trimming, exactly one JSON token.
JsonAfter(line, marker) == Trim(SubSeq(line, IndexOf(line, marker) + 1, Len(line)))
JsonParses(line, marker) == Len(JsonAfter(line, marker)) = 1 /\ JsonAfter(line, marker)[1] \in JsonTokens

\* line.match(/\[System\]: Session started:\s*([a-f0-9-]+)/i): the leftmost
\* marker that is followed, after optional whitespace, by a session id.
SessionMatchAt(line, i) ==
    /\ line[i] = SessionMarker
    /\ TrimLeft(SubSeq(line, i + 1, Len(line))) # <<>>
    /\ Head(TrimLeft(SubSeq(line, i + 1, Len(line)))) \in SessionIdTokens
SessionMatches(line) == \E i \in 1..Len(line) : SessionMatchAt(line, i)
SessionAfter(line) ==
    LET i == CHOOSE k \in 1..Len(line) :
                 SessionMatchAt(line, k) /\ \A j \in 1..(k-1) : ~SessionMatchAt(line, j)
    IN  TrimLeft(SubSeq(line, i + 1, Len(line)))

(***************************************************************************)
(* handleOutput and handleError: the events (none or one) a line yields.   *)
(***************************************************************************)
\* Variants: a handleOutput whose unparsed lines fall through to progress,
\* a handleError that looks for 'Error' only, one that forwards everything.
HandleOutputFallsThrough(line) ==
    IF Trim(line) = <<>> THEN <<>> ELSE << [type |-> "progress", message |-> Trim(line)] >>
HandleErrorOnlyError(line) ==
    IF Includes(line, ErrorWord) THEN << [type |-> "error", message |-> Trim(line)] >> ELSE <<>>
HandleErrorForwardsAll(line) == << [type |-> "error", message |-> Trim(line)] >>

\* (variant) the tool-invocation rule is tried before every other rule
HandleOutputToolUseFirst(line) ==
    IF Includes(line, ToolUseMarker) /\ JsonParses(line, ToolUseMarker)
    THEN << [type |-> "tool_use",
             name |-> JsonParse(JsonAfter(line, ToolUseMarker)[1]).name,
             input |-> JsonParse(JsonAfter(line, ToolUseMarker)[1]).input] >>
    ELSE <<>>

HandleOutput(line) ==
    IF Trim(line) = <<>> THEN <<>>
    ELSE IF Includes(line, SessionMarker) THEN
        IF SessionMatches(line)
        THEN << [type |-> "session_id", sessionId |-> SessionAfter(line)[1]] >>
        ELSE <<>>
    ELSE IF Includes(line, ClaudeMarker) THEN
        IF JsonParses(line, ClaudeMarker)
        THEN << [type |-> "claude_message",
                 content |-> JsonParse(JsonAfter(line, ClaudeMarker)[1]).content] >>
        ELSE <<>>
    ELSE IF Includes(line, ToolUseMarker) THEN
        IF JsonParses(line, ToolUseMarker)
        THEN << [type |-> "tool_use",
                 name |-> JsonParse(JsonAfter(line, ToolUseMarker)[1]).name,
                 input |-> JsonParse(JsonAfter(line, ToolUseMarker)[1]).input] >>
        ELSE <<>>
    ELSE IF Includes(line, ToolResultMarker) THEN <<>>
    ELSE IF /\ ~Includes(Trim(line), ClaudeTag)
            /\ ~Includes(Trim(line), ToolTag)
            /\ ~Includes(Trim(line), DoubleUnderscore)
         THEN << [type |-> "progress", message |-> Trim(line)] >>
         ELSE <<>>

HandleError(line) ==
    IF Includes(line, ErrorWord) \/ Includes(line, FailedWord)
    THEN << [type |-> "error", message |-> Trim(line)] >>
    ELSE <<>>


(***************************************************************************)
(* State.                                                                  *)
(***************************************************************************)
VARIABLES
    pc,               \* per execution: where the async job of POST stands
    stream,           \* per execution: the chunks the caller has been sent
    closed,           \* per execution: writer.close() has been called
    clientGone,       \* per execution: the caller disconnected, writes reject
    runningProcesses, \* the registry: requestId -> handle (the execution)
    killed,           \* per execution: the closure variable of executeInSandbox
    wpc,              \* per execution: where the remote wrapper script stands
    proc,             \* per execution: the remote command itself
    exitCode,         \* per execution: the exit status of the remote command
    pidFile,          \* per execution: the PID file exists in the sandbox
    outCount,         \* per execution: output chunks delivered so far
    delivered,        \* history, per execution: the chunks the sandbox delivered
    cpc,              \* per cancel request: where the cancel handler stands
    cid,              \* per cancel request: the requestId it was given
    cres,             \* per cancel request: its answer
    cafter,           \* per cancel request: the cancels that had returned when it began
    signals,          \* history: the signals sent to remote processes
    cancelledLive,    \* history: 'cancelled' was answered while the command ran
    pid,              \* per execution: the PID of the wrapped command's subshell ($!)
    cpid,             \* per cancel request: the PID its kill read from the PID file
    leftRunning,      \* per execution: processes it spawned outlived the killed subshell
    cls,              \* classifier harness: a line, its channel, the events it yields
    now,              \* Date.now(), in ticks
    rateLimitStore,   \* middleware: client key -> [count, resetTime]
    passes,           \* history, per client key: when requests were let through
    mw,               \* the middleware's answer to the latest request
    cb,               \* the sandbox OAuth callback request being handled
    svc,              \* the branch name a deployment request carries, and its service name
    chat,             \* the browser client: one query of handleQuerySubmit and its chat
    dpl               \* the deploy-cloudrun request: where its job stands, and its stream

vars == << pc, stream, closed, clientGone, runningProcesses, killed, wpc, proc,
           exitCode, pidFile, outCount, delivered, cpc, cid, cres, cafter, signals,
           cancelledLive, pid, cpid, leftRunning, cls, now, rateLimitStore, passes, mw, cb, svc, chat, dpl >>

streamVars == << stream, closed, clientGone >>
remoteVars == << wpc, proc, exitCode, pidFile >>
cancelVars == << cpc, cid, cres, cafter >>
outVars == << outCount, delivered >>
pidVars == << pid, cpid, leftRunning >>
\* The state of the components that share nothing with the bridge.
sideVars == << cls, now, rateLimitStore, passes, mw, cb, svc, chat, dpl >>

\* Exit statuses a command ends with by itself; a command killed by SIGTERM
\* ends with 128 + 15.
NaturalExitCodes == {0, 1, 143}
SigTermExit == 128 + 15
CodeStr(c) == CASE c = 0 -> "0" [] c = 1 -> "1" [] c = 143 -> "143" [] OTHER -> "?"

BridgeInit ==
    /\ pc = [e \in AllExecs |-> "idle"]
    /\ stream = [e \in AllExecs |-> <<>>]
    /\ closed = [e \in AllExecs |-> FALSE]
    /\ clientGone = [e \in AllExecs |-> FALSE]
    /\ runningProcesses = << >>
    /\ killed = [e \in AllExecs |-> FALSE]
    /\ wpc = [e \in AllExecs |-> "none"]
    /\ proc = [e \in AllExecs |-> "none"]
    /\ exitCode = [e \in AllExecs |-> 0]
    /\ pidFile = [e \in AllExecs |-> FALSE]
    /\ outCount = [e \in AllExecs |-> 0]
    /\ delivered = [e \in AllExecs |-> <<>>]
    /\ cpc = [c \in Cancels |-> "idle"]
    /\ cid = [c \in Cancels |-> NeverIssued]
    /\ cres = [c \in Cancels |-> "none"]
    /\ cafter = [c \in Cancels |-> {}]
    /\ signals = {}
    /\ cancelledLive = [e \in AllExecs |-> FALSE]
    /\ pid = [e \in AllExecs |-> NoExec]
    /\ cpid = [c \in Cancels |-> NoExec]
    /\ leftRunning = [e \in AllExecs |-> FALSE]

\* The other components before their first request.
ClientKeys == {"10.0.0.1", "unknown"}
ClassifierIdle == cls = [chan |-> "none", line |-> <<>>, events |-> <<>>, applied |-> FALSE]
RateInit ==
    /\ now = 0
    /\ rateLimitStore = << >>
    /\ passes = [k \in ClientKeys |-> <<>>]
    /\ mw = [status |-> "none", key |-> "none", at |-> 0, retryAfter |-> 0, handler |-> FALSE]
NoCallback ==
    [pc |-> "idle", code |-> "null", state |-> "null", error |-> "null",
     storedState |-> "null", returnUrl |-> "null", status |-> "none",
     location |-> "none", exchanges |-> 0, cookies |-> "none"]
CallbackIdle == cb = NoCallback

\* No deployment request yet.  A name is a sequence of characters.
NoService == [branch |-> <<>>, status |-> "idle", name |-> <<>>]
ServiceIdle == svc = NoService

\* The browser client before a query is submitted.
NoQuery ==
    [pc |-> "idle", input |-> <<>>, messages |-> <<>>, isQueryProcessing |-> FALSE,
     currentRequestId |-> "null", sessionId |-> "null", errorEvents |-> 0]
ClientIdle == chat = NoQuery

\* No deployment yet.
NoDeploy == [pc |-> "idle", stream |-> <<>>, clientGone |-> FALSE]
DeployIdle == dpl = NoDeploy

Init == BridgeInit /\ ClassifierIdle /\ RateInit /\ CallbackIdle /\ ServiceIdle /\ ClientIdle /\ DeployIdle

(***************************************************************************)
(* The registry: Map.set, Map.get (by membership), Map.delete.             *)
(***************************************************************************)
MapHas(m, k) == k \in DOMAIN m
MapSet(m, k, v) == [x \in (DOMAIN m) \cup {k} |-> IF x = k THEN v ELSE m[x]]
MapDelete(m, k) == [x \in (DOMAIN m) \ {k} |-> m[x]]

(***************************************************************************)
(* safeWrite / writer.write: the chunk reaches the caller unless the       *)
(* caller is gone or the writer is closed; a failed write is swallowed.    *)
(* The writer queues chunks in the order of the write calls.               *)
(***************************************************************************)
\* Variant: the chunk is put in front of what was written before.
WrittenInFront(s, e, evs) == IF clientGone[e] \/ closed[e] THEN s ELSE [s EXCEPT ![e] = evs \o @]
Written(s, e, evs) == IF clientGone[e] \/ closed[e] THEN s ELSE [s EXCEPT ![e] = @ \o evs]

\* (mutant) the event carries an id other than the one generated
RequestIdEventWrongId(e) == [type |-> "request_id", requestId |-> NeverIssued]
RequestIdEvent(e) == [type |-> "request_id", requestId |-> e]
CompleteEvent == [type |-> "complete"]
DoneMarker == [type |-> "DONE"]
ErrorEvent(msg) == [type |-> "error", message |-> msg]

\* The messages executeInSandbox logs through onLog / onError.
LogConnecting == <<"Connecting to sandbox: sbx">>
LogConnected == <<"Connected to sandbox">>
LogWorkingDir == <<"Working directory: /home/user/app">>
LogExecuting == <<WS, "Executing: cmd", WS>>
LogCompleted == <<"=== PROCESS COMPLETED ===">>
LogExitCode(c) == <<"Exit code:", CodeStr(c)>>
LogKilled == <<"Killed process pid with signal SIGTERM">>
LogKillError == <<ErrorWord, " killing process:", "sandbox call failed">>
MsgExited(c) == <<"Command exited with code", CodeStr(c)>>
MsgKilled == <<"Process was killed">>
MsgConnectFailed == <<"sandbox connection failed">>
MsgRunFailed == <<"sandbox run failed">>


(***************************************************************************)
(* execute-command: POST and its background job.                           *)
(***************************************************************************)

\* POST accepts the request, draws the requestId and starts the job, which
\* issues the request_id write and awaits it.
Post(e) ==
    /\ pc[e] = "idle"
    /\ pc' = [pc EXCEPT ![e] = "reqid"]
    /\ UNCHANGED << streamVars, runningProcesses, killed, remoteVars, outVars, sideVars, pidVars,
                    cancelVars, signals, cancelledLive >>

\* The request_id write failed: the job returns (no try/finally around it).
RequestIdFailed(e) ==
    /\ pc[e] = "reqid"
    /\ clientGone[e]
    /\ pc' = [pc EXCEPT ![e] = "aborted"]
    /\ UNCHANGED << streamVars, runningProcesses, killed, remoteVars, outVars, sideVars, pidVars,
                    cancelVars, signals, cancelledLive >>

\* The request_id write succeeded: the job calls executeInSandbox, which logs
\* and awaits Sandbox.connect.
RequestIdWritten(e) ==
    /\ pc[e] = "reqid"
    /\ ~clientGone[e]
    /\ stream' = [stream EXCEPT ![e] = @ \o << RequestIdEvent(e) >> \o HandleOutput(LogConnecting)]
    /\ pc' = [pc EXCEPT ![e] = "connecting"]
    /\ UNCHANGED << closed, clientGone, runningProcesses, killed, remoteVars, outVars, sideVars, pidVars,
                    cancelVars, signals, cancelledLive >>

\* Sandbox.connect resolved: executeInSandbox logs, starts the wrapped command
\* and returns the handle; the job registers it and calls execution.wait(),
\* which tests `killed` and awaits the command.
\* execution.process, the handle executeInSandbox returns: { kill, wait }.
E2BHandle(e) == [kind |-> "e2b", exec |-> e]
TrackProcess(m, e) == MapSet(m, e, E2BHandle(e))

WaitThrowsKilled(e) == killed[e]

\* Removal from the registry when the run completed (route.ts line 182) and
\* when it threw (line 192).
\* Variant: the success path leaves the entry in place.
UntrackOnCompleteKeeps(m, e) == m
UntrackOnComplete(m, e) == MapDelete(m, e)
\* Variant: the failure path leaves the entry in place.
UntrackOnErrorKeeps(m, e) == m
UntrackOnError(m, e) == MapDelete(m, e)

\* A PID the sandbox can hand out: no process that is running, or dead and
\* not yet waited for, holds it.
FreePid(p) == \A b \in AllExecs : pid[b] = p => wpc[b] = "done"

\* Sandbox.connect returned and commands.run started the wrapper script, whose
\* first line starts the command's subshell in the background under PID p.
ConnectedAs(e, p) ==
    /\ pc[e] = "connecting"
    /\ FreePid(p)
    /\ pid' = [pid EXCEPT ![e] = p]
    /\ wpc' = [wpc EXCEPT ![e] = "prepid"]
    /\ proc' = [proc EXCEPT ![e] = "alive"]
    /\ LET logged == Written(stream, e, HandleOutput(LogConnected) \o HandleOutput(LogWorkingDir)
                                         \o HandleOutput(LogExecuting))
           tracked == TrackProcess(runningProcesses, e)
       IN IF WaitThrowsKilled(e)
          THEN /\ runningProcesses' = UntrackOnError(tracked, e)
               /\ stream' = Written(logged, e, << ErrorEvent(MsgKilled) >>)
               /\ pc' = [pc EXCEPT ![e] = "terminal"]
          ELSE /\ runningProcesses' = tracked
               /\ stream' = logged
               /\ pc' = [pc EXCEPT ![e] = "waiting"]
    /\ UNCHANGED << closed, clientGone, killed, exitCode, pidFile, outVars, sideVars,
                    cpid, leftRunning, cancelVars, signals, cancelledLive >>

Connected(e) == \E p \in Execs : ConnectedAs(e, p)

\* Sandbox.connect threw (or returned nothing): the inner catch deletes the
\* entry (there is none), the outer catch writes the error event.
ConnectFailed(e) ==
    /\ pc[e] = "connecting"
    /\ runningProcesses' = UntrackOnError(runningProcesses, e)
    /\ stream' = Written(stream, e, << ErrorEvent(MsgConnectFailed) >>)
    /\ pc' = [pc EXCEPT ![e] = "terminal"]
    /\ UNCHANGED << closed, clientGone, killed, remoteVars, outVars, sideVars, pidVars,
                    cancelVars, signals, cancelledLive >>

\* The sandbox delivers a chunk of the command's stdout / stderr while the
\* job awaits the command: onStdout -> log -> handleOutput, onStderr ->
\* error -> handleError.
OutputChunk(e, chan, line, events, limit) ==
    /\ pc[e] = "waiting"
    /\ outCount[e] < limit
    /\ outCount' = [outCount EXCEPT ![e] = @ + 1]
    /\ delivered' = [delivered EXCEPT ![e] = Append(@, [chan |-> chan, line |-> line])]
    /\ stream' = Written(stream, e, events)
    /\ UNCHANGED << pc, closed, clientGone, runningProcesses, killed, remoteVars,
                    sideVars, pidVars, cancelVars, signals, cancelledLive >>

Stdout(e, line) == OutputChunk(e, "stdout", line, HandleOutput(line), MaxOut)

Stderr(e, line) == OutputChunk(e, "stderr", line, HandleError(line), MaxOut)

\* The wrapped command ended and its result arrived: execution.wait() logs,
\* throws on a non-zero exit code, and otherwise returns; the job then deletes
\* the entry and writes `complete`.
WaitResolved(e) ==
    /\ pc[e] = "waiting"
    /\ wpc[e] = "done"
    /\ LET logged == Written(stream, e, HandleOutput(LogCompleted)
                                         \o HandleOutput(LogExitCode(exitCode[e])))
       IN IF exitCode[e] # 0
          THEN /\ runningProcesses' = UntrackOnError(runningProcesses, e)
               /\ stream' = Written(logged, e, << ErrorEvent(MsgExited(exitCode[e])) >>)
          ELSE /\ runningProcesses' = UntrackOnComplete(runningProcesses, e)
               /\ stream' = Written(logged, e, << CompleteEvent >>)
    /\ pc' = [pc EXCEPT ![e] = "terminal"]
    /\ UNCHANGED << closed, clientGone, killed, remoteVars, outVars, sideVars, pidVars,
                    cancelVars, signals, cancelledLive >>

\* The run call itself rejected (transport failure, the 10 minute timeout).
WaitRejected(e) ==
    /\ pc[e] = "waiting"
    /\ wpc[e] # "done"
    /\ runningProcesses' = UntrackOnError(runningProcesses, e)
    /\ stream' = Written(stream, e, << ErrorEvent(MsgRunFailed) >>)
    /\ pc' = [pc EXCEPT ![e] = "terminal"]
    /\ UNCHANGED << closed, clientGone, killed, remoteVars, outVars, sideVars, pidVars,
                    cancelVars, signals, cancelledLive >>

\* After the terminal event: the [DONE] chunk, then writer.close().
WriteDone(e) ==
    /\ pc[e] = "terminal"
    /\ stream' = Written(stream, e, << DoneMarker >>)
    /\ pc' = [pc EXCEPT ![e] = "done"]
    /\ UNCHANGED << closed, clientGone, runningProcesses, killed, remoteVars, outVars, sideVars, pidVars,
                    cancelVars, signals, cancelledLive >>

CloseWriter(e) ==
    /\ pc[e] = "done"
    /\ closed' = [closed EXCEPT ![e] = TRUE]
    /\ pc' = [pc EXCEPT ![e] = "closed"]
    /\ UNCHANGED << stream, clientGone, runningProcesses, killed, remoteVars, outVars, sideVars, pidVars,
                    cancelVars, signals, cancelledLive >>

\* The caller goes away while its stream is open.
ClientDisconnect(e) ==
    /\ pc[e] \notin {"idle", "aborted", "closed"}
    /\ ~clientGone[e]
    /\ clientGone' = [clientGone EXCEPT ![e] = TRUE]
    /\ UNCHANGED << pc, stream, closed, runningProcesses, killed, remoteVars, outVars, sideVars, pidVars,
                    cancelVars, signals, cancelledLive >>

(***************************************************************************)
(* The sandbox side: the wrapper script of executeInSandbox.               *)
(*   ( cd dir && command ) &   echo $! > pidFile   wait $!                 *)
(*   EXIT_CODE=$?   rm -f pidFile   exit $EXIT_CODE                        *)
(***************************************************************************)
WrapperWritesPid(e) ==
    /\ wpc[e] = "prepid"
    /\ wpc' = [wpc EXCEPT ![e] = "waiting"]
    /\ pidFile' = [pidFile EXCEPT ![e] = TRUE]
    /\ UNCHANGED << pc, streamVars, runningProcesses, killed, proc, exitCode, outVars, sideVars, pidVars,
                    cancelVars, signals, cancelledLive >>

CommandExits(e, code) ==
    /\ proc[e] = "alive"
    /\ proc' = [proc EXCEPT ![e] = "exited"]
    /\ exitCode' = [exitCode EXCEPT ![e] = code]
    /\ UNCHANGED << pc, streamVars, runningProcesses, killed, wpc, pidFile, outVars, sideVars, pidVars,
                    cancelVars, signals, cancelledLive >>

\* `wait $!` returns once the command is dead; the wrapper removes the PID
\* file and exits with the command's status.
WrapperReaps(e) ==
    /\ wpc[e] = "waiting"
    /\ proc[e] \in {"exited", "killed"}
    /\ wpc' = [wpc EXCEPT ![e] = "done"]
    /\ pidFile' = [pidFile EXCEPT ![e] = FALSE]
    /\ UNCHANGED << pc, streamVars, runningProcesses, killed, proc, exitCode, outVars, sideVars, pidVars,
                    cancelVars, signals, cancelledLive >>


(***************************************************************************)
(* cancel-execution: POST.                                                 *)
(***************************************************************************)
\* isE2BProcess of lib/process-tracker: tells the sandbox handle from a
\* ChildProcess.
IsE2BProcess(h) == h.kind = "e2b"

\* The ids a caller can send: one it read from a request_id event, or one
\* that was never issued.
Known(id) ==
    \/ id = NeverIssued
    \/ id \in AllExecs /\ stream[id] # <<>>
    \/ id = DeployId /\ dpl.stream # <<>>

\* runningProcesses.get(requestId): the handle, or undefined.
Undefined == [kind |-> "undefined", exec |-> NeverIssued]
\* (mutant) the handle is taken from what was issued, not from what is tracked
CancelGetStale(m, id) == IF id \in AllExecs THEN E2BHandle(id) ELSE Undefined
CancelGet(m, id) == IF MapHas(m, id) THEN m[id] ELSE Undefined
UntrackOnCancel(m, id) == MapDelete(m, id)

\* What the handler does once the kill attempt is over: delete the entry and
\* answer 200 "Execution cancelled".
CancelAnswered(c, e) ==
    /\ runningProcesses' = UntrackOnCancel(runningProcesses, cid[c])
    /\ cres' = [cres EXCEPT ![c] = "cancelled"]
    /\ cpc' = [cpc EXCEPT ![c] = "returned"]
    /\ cancelledLive' = [cancelledLive EXCEPT ![e] = @ \/ proc[e] = "alive"]

\* The request arrives: look the id up; answer 404 when it is absent; when
\* present call the handle's kill, which sets `killed` and awaits the sandbox
\* reading the PID file.  (Cancel requests are numbered in order of arrival.)
CancelRequest(c, id) ==
    /\ cpc[c] = "idle"
    /\ \A d \in Cancels : d < c => cpc[d] # "idle"
    /\ Known(id)
    /\ cid' = [cid EXCEPT ![c] = id]
    /\ cafter' = [cafter EXCEPT ![c] = {d \in Cancels : cpc[d] = "returned"}]
    /\ LET h == CancelGet(runningProcesses, id) IN
       IF h = Undefined
       THEN /\ cres' = [cres EXCEPT ![c] = "notfound"]
            /\ cpc' = [cpc EXCEPT ![c] = "returned"]
            /\ UNCHANGED << runningProcesses, killed, cancelledLive >>
       ELSE IF IsE2BProcess(h)
            THEN /\ killed' = [killed EXCEPT ![h.exec] = TRUE]
                 /\ cpc' = [cpc EXCEPT ![c] = "cat"]
                 /\ UNCHANGED << runningProcesses, cres, cancelledLive >>
            ELSE \* a handle without a pid: nothing is signalled
                 /\ runningProcesses' = UntrackOnCancel(runningProcesses, id)
                 /\ cres' = [cres EXCEPT ![c] = "cancelled"]
                 /\ cpc' = [cpc EXCEPT ![c] = "returned"]
                 /\ cancelledLive' = [cancelledLive EXCEPT ![h.exec] = @ \/ proc[h.exec] = "alive"]
                 /\ UNCHANGED killed
    /\ UNCHANGED << pc, streamVars, remoteVars, outVars, sideVars, pidVars, signals >>

\* `cat pidFile || echo ""` returned: with a pid, kill issues the kill
\* command; without one it goes on to remove the PID file.
KillReadsPid(c) ==
    /\ cpc[c] = "cat"
    /\ cpc' = [cpc EXCEPT ![c] = IF pidFile[cid[c]] THEN "sig" ELSE "rm"]
    /\ cpid' = [cpid EXCEPT ![c] = IF pidFile[cid[c]] THEN pid[cid[c]] ELSE NoExec]
    /\ UNCHANGED << pc, streamVars, runningProcesses, killed, remoteVars, outVars, sideVars,
                    pid, leftRunning, cid, cres, cafter, signals, cancelledLive >>

\* The signal kill is called with by the cancel handler: process.kill("SIGTERM"),
\* spliced into `kill -${signal || 'TERM'} ${pid}`.
KillSignal == "SIGTERM"

\* The process the sandbox finds under a PID: the execution whose subshell holds
\* it and runs; NoExec when the PID is free or its process is dead.
HolderOf(p) ==
    IF \E b \in AllExecs : pid[b] = p /\ wpc[b] # "done" /\ proc[b] = "alive"
    THEN CHOOSE b \in AllExecs : pid[b] = p /\ wpc[b] # "done" /\ proc[b] = "alive"
    ELSE NoExec

\* What a SIGTERM does to the one process it is sent to: the subshell dies; or
\* it dies and leaves processes it had started running (they are not
\* signalled); or the command handles the signal and lives on.
TermOutcomes == {"dies", "orphans", "survives"}

\* The sandbox runs `kill -SIGTERM pid 2>/dev/null || true`: one signal to the
\* one process that holds the PID read from the PID file.
KillSignals(c) ==
    /\ cpc[c] = "sig"
    /\ LET e == cid[c]
           h == HolderOf(cpid[c]) IN
        /\ signals' = signals \cup {[exec |-> e, alive |-> proc[e] = "alive",
                                      hit |-> h, sig |-> KillSignal]}
        /\ IF h # NoExec
           THEN \E o \in TermOutcomes :
                  /\ proc' = IF o = "survives" THEN proc ELSE [proc EXCEPT ![h] = "killed"]
                  /\ exitCode' = IF o = "survives" THEN exitCode
                                 ELSE [exitCode EXCEPT ![h] = SigTermExit]
                  /\ leftRunning' = [leftRunning EXCEPT ![h] = @ \/ o = "orphans"]
           ELSE UNCHANGED << proc, exitCode, leftRunning >>
    /\ cpc' = [cpc EXCEPT ![c] = "sigdone"]
    /\ UNCHANGED << pc, streamVars, runningProcesses, killed, wpc, pidFile, outVars, sideVars,
                    pid, cpid, cid, cres, cafter, cancelledLive >>

\* The kill command returned: kill logs and issues `rm -f pidFile`.
KillSignalReturned(c) ==
    /\ cpc[c] = "sigdone"
    /\ stream' = Written(stream, cid[c], HandleOutput(LogKilled))
    /\ cpc' = [cpc EXCEPT ![c] = "rm"]
    /\ UNCHANGED << pc, closed, clientGone, runningProcesses, killed, remoteVars, outVars, sideVars, pidVars,
                    cid, cres, cafter, signals, cancelledLive >>

\* `rm -f pidFile` ran and returned: kill resolves and the handler answers.
KillRemovesPidFile(c) ==
    /\ cpc[c] = "rm"
    /\ pidFile' = [pidFile EXCEPT ![cid[c]] = FALSE]
    /\ CancelAnswered(c, cid[c])
    /\ UNCHANGED << pc, streamVars, killed, wpc, proc, exitCode, outVars, sideVars, pidVars,
                    cid, cafter, signals >>

\* A sandbox call inside kill threw.  kill's own catch reports the failure
\* through onError and kill resolves ("reported"); were it to rethrow, the
\* handler's catch around the kill would log it ("swallowed"); past both, the
\* handler's outer catch answers 500 ("escaped").
\* (mutant) the kill is awaited outside every try block
KillFailureEscapes == "escaped"
KillFailure == "reported"

KillCallFails(c) ==
    /\ cpc[c] \in {"cat", "sig", "rm"}
    /\ IF KillFailure = "escaped"
       THEN /\ cres' = [cres EXCEPT ![c] = "error500"]
            /\ cpc' = [cpc EXCEPT ![c] = "returned"]
            /\ UNCHANGED << stream, runningProcesses, cancelledLive >>
       ELSE /\ stream' = IF KillFailure = "reported"
                         THEN Written(stream, cid[c], HandleError(LogKillError))
                         ELSE stream
            /\ CancelAnswered(c, cid[c])
    /\ UNCHANGED << pc, closed, clientGone, killed, remoteVars, outVars, sideVars, pidVars,
                    cid, cafter, signals >>

\* A sandbox call inside kill never returns.
KillCallHangs(c) ==
    /\ cpc[c] \in {"cat", "sig", "rm"}
    /\ cpc' = [cpc EXCEPT ![c] = "hung"]
    /\ UNCHANGED << pc, streamVars, runningProcesses, killed, remoteVars, outVars, sideVars, pidVars,
                    cid, cres, cafter, signals, cancelledLive >>

(***************************************************************************)
(* The system.                                                             *)
(***************************************************************************)
Next ==
    \/ \E e \in Execs : Post(e)
    \/ \E e \in Execs : RequestIdFailed(e)
    \/ \E e \in Execs : RequestIdWritten(e)
    \/ \E e \in Execs : Connected(e)
    \/ \E e \in Execs : ConnectFailed(e)
    \/ \E e \in Execs : \E line \in StdoutLines : Stdout(e, line)
    \/ \E e \in Execs : \E line \in StderrLines : Stderr(e, line)
    \/ \E e \in Execs : WaitResolved(e)
    \/ \E e \in Execs : WaitRejected(e)
    \/ \E e \in Execs : WriteDone(e)
    \/ \E e \in Execs : CloseWriter(e)
    \/ \E e \in Execs : ClientDisconnect(e)
    \/ \E e \in Execs : WrapperWritesPid(e)
    \/ \E e \in Execs : \E code \in NaturalExitCodes : CommandExits(e, code)
    \/ \E e \in Execs : WrapperReaps(e)
    \/ \E c \in Cancels : \E id \in RequestIds : CancelRequest(c, id)
    \/ \E c \in Cancels : KillReadsPid(c)
    \/ \E c \in Cancels : KillSignals(c)
    \/ \E c \in Cancels : KillSignalReturned(c)
    \/ \E c \in Cancels : KillRemovesPidFile(c)
    \/ \E c \in Cancels : KillCallFails(c)
    \/ \E c \in Cancels : KillCallHangs(c)

Spec == Init /\ [][Next]_vars

\* The sandbox's shell keeps running the wrapper script, the sandbox delivers
\* the result of a command that has ended, and the event loop then resumes the
\* job: none of these steps stays enabled for ever without being taken.
SpecFair ==
    /\ Spec
    /\ \A e \in Execs : WF_vars(WrapperWritesPid(e))
    /\ \A e \in Execs : WF_vars(WrapperReaps(e))
    /\ \A e \in Execs : WF_vars(WaitResolved(e))

bridgeVars == << pc, streamVars, runningProcesses, killed, remoteVars, outVars, pidVars,
                cancelVars, signals, cancelledLive >>

(***************************************************************************)
(* The bridge with an attached caller and no cancel request: a command     *)
(* that writes up to MaxChunks chunks, each drawn from a few sample lines. *)
(***************************************************************************)
MaxChunks == 2
StreamStdout == {<<"hello">>, <<"world", WS>>, <<WS>>, <<ToolTag, "Read">>}
StreamStderr == {<<ErrorWord, ": connection refused">>, <<"warning">>}

\* The execution that is watched.
StreamExecs == {CHOOSE e \in Execs : TRUE}

StdoutChunk(e, line) == OutputChunk(e, "stdout", line, HandleOutput(line), MaxChunks)

StderrChunk(e, line) == OutputChunk(e, "stderr", line, HandleError(line), MaxChunks)

NextStream ==
    \/ \E e \in StreamExecs : Post(e)
    \/ \E e \in StreamExecs : RequestIdWritten(e)
    \/ \E e \in StreamExecs : Connected(e)
    \/ \E e \in StreamExecs : ConnectFailed(e)
    \/ \E e \in StreamExecs : \E line \in StreamStdout : StdoutChunk(e, line)
    \/ \E e \in StreamExecs : \E line \in StreamStderr : StderrChunk(e, line)
    \/ \E e \in StreamExecs : WaitResolved(e)
    \/ \E e \in StreamExecs : WaitRejected(e)
    \/ \E e \in StreamExecs : WriteDone(e)
    \/ \E e \in StreamExecs : CloseWriter(e)
    \/ \E e \in StreamExecs : WrapperWritesPid(e)
    \/ \E e \in StreamExecs : \E code \in NaturalExitCodes : CommandExits(e, code)
    \/ \E e \in StreamExecs : WrapperReaps(e)

SpecStream == Init /\ [][NextStream]_vars

(***************************************************************************)
(* The line classifier alone: one chunk, drawn from every token sequence   *)
(* up to MaxLineLen, handed to handleOutput (a stdout chunk) or to         *)
(* handleError (a stderr chunk).                                           *)
(***************************************************************************)
MaxLineLen == 3
LineTokens ==
    {WS, "hello", SessionMarker, ClaudeMarker, ToolUseMarker, ToolResultMarker,
     ClaudeTag, ToolTag, DoubleUnderscore, ErrorWord, FailedWord, MalformedJson}
    \cup SessionIdTokens \cup JsonTokens
Lines == UNION { [1..n -> LineTokens] : n \in 0..MaxLineLen }
Channels == {"stdout", "stderr"}

InitClassify ==
    /\ BridgeInit /\ RateInit /\ CallbackIdle /\ ServiceIdle /\ ClientIdle /\ DeployIdle
    /\ cls \in { [chan |-> ch, line |-> l, events |-> <<>>, applied |-> FALSE] :
                    ch \in Channels, l \in Lines }

ClassifyStdout ==
    /\ cls.chan = "stdout" /\ ~cls.applied
    /\ cls' = [cls EXCEPT !.events = HandleOutput(cls.line), !.applied = TRUE]
    /\ UNCHANGED << bridgeVars, now, rateLimitStore, passes, mw, cb, svc, chat, dpl >>

ClassifyStderr ==
    /\ cls.chan = "stderr" /\ ~cls.applied
    /\ cls' = [cls EXCEPT !.events = HandleError(cls.line), !.applied = TRUE]
    /\ UNCHANGED << bridgeVars, now, rateLimitStore, passes, mw, cb, svc, chat, dpl >>

NextClassify == ClassifyStdout \/ ClassifyStderr

SpecClassify == InitClassify /\ [][NextClassify]_vars


(***************************************************************************)
(* The middleware (src/lovable-ui/middleware.ts): the rate limiter of the  *)
(* OAuth bridge endpoints, then the authentication gate.  Time is counted  *)
(* in ticks; a tick stands for a second and for a millisecond alike.       *)
(***************************************************************************)
\* The window and the limit are scaled down from 15 * 60 * 1000 ms and 100
\* requests, the size that triggers the clean-up from 10000 entries.
RATE_LIMIT_WINDOW_MS == 2
RATE_LIMIT_MAX_REQUESTS == 2
CleanupSize == 1
MaxTime == 3

\* Paths, as sequences of segments.
DottedSegments == {"a.json"}
Paths ==
    { <<"api", "auth", "sandbox", "callback", "google">>, <<"api", "token", "refresh">>,
      <<"api", "token", "a.json">>, <<"api", "execute-command">>, <<"generate">> }
StartsWith(path, prefix) ==
    Len(prefix) <= Len(path) /\ SubSeq(path, 1, Len(prefix)) = prefix
Skipped(path) ==
    \/ StartsWith(path, <<"_next">>)
    \/ StartsWith(path, <<"login">>)
    \/ path = << >>
    \/ \E i \in 1..Len(path) : path[i] \in DottedSegments
IsOAuthBridgeEndpoint(path) ==
    StartsWith(path, <<"api", "auth", "sandbox">>) \/ StartsWith(path, <<"api", "token">>)
IsApiRoute(path) == StartsWith(path, <<"api">>)
IsPublicApi(path) ==
    \E r \in { <<"api", "auth">>, <<"api", "token">>, <<"api", "health">> } : StartsWith(path, r)
IsProtected(path) == StartsWith(path, <<"generate">>)

\* x-forwarded-for is a list of addresses (empty: no header), x-real-ip one
\* address ("": no header).
ForwardedFor == { << >>, <<"10.0.0.1">>, <<"", "10.0.0.1">> }
RealIp == { "", "10.0.0.1" }
ClientKey(xff, xreal) ==
    IF xff # << >> /\ xff[1] # "" THEN xff[1]
    ELSE IF xreal # "" THEN xreal
    ELSE "unknown"

\* checkRateLimit(ip) at time t: the store it leaves and its answer.
Expired(record, t) == record.resetTime < t
Cleaned(store, t) ==
    IF Cardinality(DOMAIN store) > CleanupSize
    THEN [k \in {j \in DOMAIN store : ~Expired(store[j], t)} |-> store[k]]
    ELSE store
\* Variant: the limit test lets one request more through.
OverLimitLate(record) == record.count > RATE_LIMIT_MAX_REQUESTS
OverLimit(record) == record.count >= RATE_LIMIT_MAX_REQUESTS
CheckRateLimit(store, ip, t) ==
    IF ~MapHas(store, ip) \/ Expired(store[ip], t)
    THEN [store |-> MapSet(Cleaned(store, t), ip,
                           [count |-> 1, resetTime |-> t + RATE_LIMIT_WINDOW_MS]),
          allowed |-> TRUE, retryAfter |-> 0]
    ELSE IF OverLimit(store[ip])
    THEN [store |-> Cleaned(store, t), allowed |-> FALSE,
          retryAfter |-> store[ip].resetTime - t]
    ELSE [store |-> MapSet(Cleaned(store, t), ip,
                           [count |-> store[ip].count + 1, resetTime |-> store[ip].resetTime]),
          allowed |-> TRUE, retryAfter |-> 0]

\* The passes of the last RATE_LIMIT_WINDOW_MS + 1 instants.
Recent(times, t) == SelectSeq(times, LAMBDA x : x >= t - RATE_LIMIT_WINDOW_MS)

\* middleware(request): one request, from a caller with or without a session.
Middleware(path, xff, xreal, session) ==
    LET ip == ClientKey(xff, xreal)
        limited == IsOAuthBridgeEndpoint(path) /\ ~Skipped(path)
        rl == CheckRateLimit(rateLimitStore, ip, now)
        status ==
            IF Skipped(path) THEN "next"
            ELSE IF limited /\ ~rl.allowed THEN "429"
            ELSE IF IsApiRoute(path) /\ ~IsPublicApi(path)
                 THEN (IF session THEN "next" ELSE "401")
            ELSE IF IsProtected(path) /\ ~session THEN "redirect"
            ELSE "next"
    IN  /\ rateLimitStore' = IF limited THEN rl.store ELSE rateLimitStore
        /\ mw' = [status |-> status, key |-> IF limited THEN ip ELSE "none",
                  at |-> IF limited THEN now ELSE 0,
                  retryAfter |-> IF status = "429" THEN rl.retryAfter ELSE 0,
                  handler |-> status = "next"]
        /\ passes' = IF limited /\ status = "next"
                      THEN [passes EXCEPT ![ip] = Append(@, now)]
                      ELSE passes
        /\ UNCHANGED << bridgeVars, cls, now, cb, svc, chat, dpl >>

Tick ==
    /\ now < MaxTime
    /\ now' = now + 1
    /\ passes' = [k \in ClientKeys |-> Recent(passes[k], now + 1)]
    /\ UNCHANGED << bridgeVars, cls, rateLimitStore, mw, cb, svc, chat, dpl >>

NextRate ==
    \/ \E path \in Paths : \E xff \in ForwardedFor : \E xreal \in RealIp :
          \E session \in BOOLEAN : Middleware(path, xff, xreal, session)
    \/ Tick

SpecRate == Init /\ [][NextRate]_vars


(***************************************************************************)
(* The sandbox OAuth callback                                              *)
(* (src/lovable-ui/app/api/auth/sandbox/callback/google/route.ts).         *)
(* A query parameter or cookie that is absent is "null".                   *)
(***************************************************************************)
Codes == {"null", "", "code-1"}
States == {"null", "", "state-1", "state-2"}
OAuthErrors == {"null", "", "access_denied"}
ReturnUrls == {"null", "https://sandbox.app"}
Falsy(x) == x \in {"null", ""}

InitCallback ==
    /\ BridgeInit /\ ClassifierIdle /\ RateInit /\ ServiceIdle /\ ClientIdle /\ DeployIdle
    /\ cb \in { [NoCallback EXCEPT !.pc = "received", !.code = c, !.state = st, !.error = er,
                                    !.storedState = ss, !.returnUrl = ru, !.cookies = "set"] :
                   c \in Codes, st \in States, er \in OAuthErrors, ss \in States,
                   ru \in ReturnUrls }

\* Variant: the state test compares the two values only.
StateRejectedLoose(c) == c.state # c.storedState
StateRejected(c) == Falsy(c.state) \/ Falsy(c.storedState) \/ c.state # c.storedState

Answer(c, status, location) ==
    [c EXCEPT !.pc = "answered", !.status = status, !.location = location, !.cookies = "cleared"]

\* GET up to its first await on Google, or to its answer.
CallbackGet ==
    /\ cb.pc = "received"
    /\ cb' = IF ~Falsy(cb.error)
                THEN IF ~Falsy(cb.returnUrl)
                     THEN Answer(cb, "redirect", "returnUrl?oauth_error")
                     ELSE Answer(cb, "400", "none")
             ELSE IF StateRejected(cb) THEN Answer(cb, "403", "none")
             ELSE IF Falsy(cb.code) THEN Answer(cb, "400", "none")
             ELSE [cb EXCEPT !.pc = "exchanging", !.exchanges = @ + 1]
    /\ UNCHANGED << bridgeVars, cls, now, rateLimitStore, passes, mw, svc, chat, dpl >>

\* exchangeSandboxCodeForTokens resolved; validateSandboxToken is awaited.
ExchangeResolved ==
    /\ cb.pc = "exchanging"
    /\ cb' = [cb EXCEPT !.pc = "validating"]
    /\ UNCHANGED << bridgeVars, cls, now, rateLimitStore, passes, mw, svc, chat, dpl >>

\* validateSandboxToken resolved: redirect to the done page with the tokens.
ValidateResolved ==
    /\ cb.pc = "validating"
    /\ cb' = Answer(cb, "redirect", "done?access_token")
    /\ UNCHANGED << bridgeVars, cls, now, rateLimitStore, passes, mw, svc, chat, dpl >>

\* Either call threw: the catch block.
ExchangeFailed ==
    /\ cb.pc \in {"exchanging", "validating"}
    /\ cb' = IF ~Falsy(cb.returnUrl)
             THEN Answer(cb, "redirect", "returnUrl?oauth_error")
             ELSE Answer(cb, "500", "none")
    /\ UNCHANGED << bridgeVars, cls, now, rateLimitStore, passes, mw, svc, chat, dpl >>

NextCallback == CallbackGet \/ ExchangeResolved \/ ValidateResolved \/ ExchangeFailed

SpecCallback == InitCallback /\ [][NextCallback]_vars


(***************************************************************************)
(* deploy-cloudrun: the branch name of the request, validateBranchName and *)
(* sanitizeServiceName.  A name is a sequence of characters drawn from a   *)
(* few samples of each class; the length limit of the service name (50 in  *)
(* the code) is scaled down to MaxServiceNameLen.                          *)
(***************************************************************************)
MaxBranchLen == 5
MaxServiceNameLen == 4

LowerCase == {"a", "b", "p"}
UpperCase == {"B"}
Digits == {"1"}
BranchChars == {"a", "B", "1", "/", "_", "-", "."}
BranchNames == UNION { [1..n -> BranchChars] : n \in 0..MaxBranchLen }

\* /^[a-zA-Z0-9/_-]+$/
BRANCH_NAME_REGEX(s) ==
    /\ Len(s) >= 1
    /\ \A i \in 1..Len(s) : s[i] \in LowerCase \cup UpperCase \cup Digits \cup {"/", "_", "-"}

validateBranchName(branchName) == BRANCH_NAME_REGEX(branchName)

ToLowerCase(s) == [i \in 1..Len(s) |-> IF s[i] = "B" THEN "b" ELSE s[i]]

\* .replace(/[^a-z0-9-]/g, '-')
ReplaceInvalid(s) ==
    [i \in 1..Len(s) |-> IF s[i] \in LowerCase \cup Digits \cup {"-"} THEN s[i] ELSE "-"]

\* .replace(/-+/g, '-')
RECURSIVE CollapseHyphens(_)
CollapseHyphens(s) ==
    IF Len(s) <= 1 THEN s
    ELSE IF s[1] = "-" /\ s[2] = "-" THEN CollapseHyphens(Tail(s))
    ELSE << s[1] >> \o CollapseHyphens(Tail(s))

\* .replace(/-+$/, '')
RECURSIVE StripTrailingHyphens(_)
StripTrailingHyphens(s) ==
    IF s # <<>> /\ s[Len(s)] = "-" THEN StripTrailingHyphens(SubSeq(s, 1, Len(s) - 1)) ELSE s

\* /^[a-z]/
StartsWithLetter(s) == s # <<>> /\ s[1] \in LowerCase

AppPrefix == << "a", "p", "p", "-" >>

\* .substring(0, n)
Substring(s, n) == SubSeq(s, 1, IF Len(s) < n THEN Len(s) ELSE n)

Throws == << "throws" >>

\* if (sanitized.length > 50) sanitized = sanitized.substring(0, 50).replace(/-+$/, '')
Truncate(s) ==
    IF Len(s) > MaxServiceNameLen
    THEN StripTrailingHyphens(Substring(s, MaxServiceNameLen))
    ELSE s

sanitizeServiceName(branchName) ==
    IF ~BRANCH_NAME_REGEX(branchName) THEN Throws
    ELSE LET replaced == CollapseHyphens(ReplaceInvalid(ToLowerCase(branchName)))
             lettered == IF StartsWithLetter(replaced) THEN replaced ELSE AppPrefix \o replaced
         IN Truncate(StripTrailingHyphens(lettered))

InitSanitize ==
    /\ BridgeInit /\ ClassifierIdle /\ RateInit /\ CallbackIdle /\ ClientIdle /\ DeployIdle
    /\ svc \in { [NoService EXCEPT !.branch = b, !.status = "received"] : b \in BranchNames }

\* POST of deploy-cloudrun up to the service name: 400 without a branch name,
\* 400 for one validateBranchName rejects, else the sanitized service name.
DeployNamed ==
    /\ svc.status = "received"
    /\ svc' = IF svc.branch = <<>> THEN [svc EXCEPT !.status = "400 required"]
              ELSE IF ~validateBranchName(svc.branch) THEN [svc EXCEPT !.status = "400 invalid"]
              ELSE [svc EXCEPT !.status = "named", !.name = sanitizeServiceName(svc.branch)]
    /\ UNCHANGED << bridgeVars, cls, now, rateLimitStore, passes, mw, cb, chat, dpl >>

NextSanitize == DeployNamed

SpecSanitize == InitSanitize /\ [][NextSanitize]_vars


(***************************************************************************)
(* Two executions in one sandbox and one cancel request: callers that stay *)
(* attached, commands that write nothing and end with status 0 unless they *)
(* are killed.                                                             *)
(***************************************************************************)
\* The cancel request that is watched.
PairCancels == {CHOOSE c \in Cancels : TRUE}

NextPair ==
    \/ \E e \in AllExecs : Post(e)
    \/ \E e \in AllExecs : RequestIdWritten(e)
    \/ \E e \in AllExecs : \E p \in AllExecs : ConnectedAs(e, p)
    \/ \E e \in AllExecs : WaitResolved(e)
    \/ \E e \in AllExecs : WriteDone(e)
    \/ \E e \in AllExecs : CloseWriter(e)
    \/ \E e \in AllExecs : WrapperWritesPid(e)
    \/ \E e \in AllExecs : CommandExits(e, 0)
    \/ \E e \in AllExecs : WrapperReaps(e)
    \/ \E c \in PairCancels : \E id \in AllExecs : CancelRequest(c, id)
    \/ \E c \in PairCancels : KillReadsPid(c)
    \/ \E c \in PairCancels : KillSignals(c)
    \/ \E c \in PairCancels : KillSignalReturned(c)
    \/ \E c \in PairCancels : KillRemovesPidFile(c)

SpecPair == Init /\ [][NextPair]_vars


(***************************************************************************)
(* The browser client (src/unnamed/part_002): handleQuerySubmit reading    *)
(* the stream of one execute-command request.  The stream is a sequence of *)
(* chunks, a chunk a sequence of lines; a line is a `data: ` line with a   *)
(* body, or some other line.                                               *)
(***************************************************************************)
MaxChunkLines == 2
MaxClientChunks == 2

\* A body JSON.parse rejects; a line that does not start with "data: ".
Unparsed == [type |-> "unparsed"]
OtherLine == [data |-> FALSE, body |-> [type |-> "none"]]
ClientBodies ==
    { [type |-> "request_id", requestId |-> "req-1"],
      [type |-> "session_id", sessionId |-> "id:abc-123"],
      [type |-> "progress", message |-> <<"hello">>],
      ErrorEvent(MsgKilled), DoneMarker, Unparsed }
ClientLines == { [data |-> TRUE, body |-> b] : b \in ClientBodies } \cup {OtherLine}
ClientChunks == UNION { [1..n -> ClientLines] : n \in 1..MaxChunkLines }
ClientStreams == UNION { [1..n -> ClientChunks] : n \in 0..MaxClientChunks }

\* The inner catch around JSON.parse and the dispatch ("Ignore parse errors"):
\* whatever was thrown inside the inner try, the loop goes on with the next line.
InnerCatch(st, m) == st

\* The body of the inner try for one data line: JSON.parse throws on a body
\* it rejects, and an error event is thrown as an Error; both inside the try.
HandleMessage(st, m) ==
    IF m = Unparsed THEN InnerCatch(st, m)
    ELSE IF m.type = "error"
         THEN InnerCatch([st EXCEPT !.errorEvents = @ + 1], m)
    ELSE IF m.type = "request_id" THEN [st EXCEPT !.currentRequestId = m.requestId]
    ELSE IF m.type = "session_id" THEN [st EXCEPT !.sessionId = m.sessionId]
    ELSE [st EXCEPT !.messages = Append(@, m)]

\* for (const line of lines): a [DONE] line ends the loop over the chunk.
RECURSIVE HandleLines(_, _)
HandleLines(st, lines) ==
    IF lines = <<>> THEN st
    ELSE IF ~Head(lines).data THEN HandleLines(st, Tail(lines))
    ELSE IF Head(lines).body = DoneMarker THEN st
    ELSE HandleLines(HandleMessage(st, Head(lines).body), Tail(lines))

\* finally: setIsQueryProcessing(false); setCurrentRequestId(null)
Finally(st) == [st EXCEPT !.pc = "done", !.isQueryProcessing = FALSE, !.currentRequestId = "null"]

InitClient ==
    /\ BridgeInit /\ ClassifierIdle /\ RateInit /\ CallbackIdle /\ ServiceIdle /\ DeployIdle
    /\ chat \in { [NoQuery EXCEPT !.input = s] : s \in ClientStreams }

clientOthers == << bridgeVars, cls, now, rateLimitStore, passes, mw, cb, svc, dpl >>

\* handleQuerySubmit up to the fetch.
QuerySubmit ==
    /\ chat.pc = "idle"
    /\ chat' = [chat EXCEPT !.pc = "fetching", !.isQueryProcessing = TRUE,
                            !.messages = Append(@, [type |-> "claude_message", content |-> "User: q"])]
    /\ UNCHANGED clientOthers

\* The response arrived with a body.
FetchResolved ==
    /\ chat.pc = "fetching"
    /\ chat' = [chat EXCEPT !.pc = "reading"]
    /\ UNCHANGED clientOthers

\* The fetch rejected, or the response was not ok or had no body: the outer
\* catch appends an error message, finally runs.
FetchFailed ==
    /\ chat.pc = "fetching"
    /\ chat' = Finally([chat EXCEPT !.messages =
                           Append(@, [type |-> "error", message |-> "Failed to execute query"])])
    /\ UNCHANGED clientOthers

\* The request was aborted by the user: the AbortError is not shown.
Aborted ==
    /\ chat.pc \in {"fetching", "reading"}
    /\ chat' = Finally(chat)
    /\ UNCHANGED clientOthers

\* reader.read() returned a chunk: its lines are handled one after the other.
ReadChunk ==
    /\ chat.pc = "reading"
    /\ chat.input # <<>>
    /\ chat' = HandleLines([chat EXCEPT !.input = Tail(@)], Head(chat.input))
    /\ UNCHANGED clientOthers

\* reader.read() returned done: the loop ends, finally runs.
ReadDone ==
    /\ chat.pc = "reading"
    /\ chat.input = <<>>
    /\ chat' = Finally(chat)
    /\ UNCHANGED clientOthers

NextClient ==
    \/ QuerySubmit
    \/ FetchResolved
    \/ FetchFailed
    \/ Aborted
    \/ ReadChunk
    \/ ReadDone

SpecClient == InitClient /\ [][NextClient]_vars


(***************************************************************************)
(* deploy-cloudrun next to the bridge: one deployment, one execution, and  *)
(* cancel requests that carry the deployment's requestId.                  *)
(***************************************************************************)
\* safeWrite of deploy-cloudrun: a failed write is swallowed.
DeployWritten(d, evs) == IF d.clientGone THEN d.stream ELSE d.stream \o evs

ProgressEvent(msg) == [type |-> "progress", message |-> msg]
DeployCompleteEvent == [type |-> "complete", serviceUrl |-> "url", serviceName |-> "name"]

\* (variant) the cleanup empties the registry
DeployUntrackClears(m, id) == <<>>
\* finally: runningProcesses.delete(requestId)
DeployUntrack(m, id) == MapDelete(m, id)

deployOthers == << pc, streamVars, killed, remoteVars, outVars, pidVars, cancelVars, signals,
                  cancelledLive, cls, now, rateLimitStore, passes, mw, cb, svc, chat >>

\* POST with a valid branch name: requestId = randomUUID(), the stream is
\* created, the job starts; the caller may already be gone.
DeployPost ==
    /\ dpl.pc = "idle"
    /\ \E gone \in BOOLEAN : dpl' = [dpl EXCEPT !.pc = "starting", !.clientGone = gone]
    /\ UNCHANGED << runningProcesses, deployOthers >>

\* The request_id event was written.
DeployRequestIdWritten ==
    /\ dpl.pc = "starting" /\ ~dpl.clientGone
    /\ dpl' = [dpl EXCEPT !.pc = "building",
                          !.stream = DeployWritten(dpl, << RequestIdEvent(DeployId),
                                                           ProgressEvent("Starting deployment") >>)]
    /\ UNCHANGED << runningProcesses, deployOthers >>

\* The first write failed: the job returns, finally runs next.
DeployRequestIdFailed ==
    /\ dpl.pc = "starting" /\ dpl.clientGone
    /\ dpl' = [dpl EXCEPT !.pc = "finally"]
    /\ UNCHANGED << runningProcesses, deployOthers >>

\* The caller goes away while the deployment runs.
DeployClientDisconnect ==
    /\ dpl.pc \in {"building", "deploying"} /\ ~dpl.clientGone
    /\ dpl' = [dpl EXCEPT !.clientGone = TRUE]
    /\ UNCHANGED << runningProcesses, deployOthers >>

\* buildFromGitHub resolved.
DeployBuilt ==
    /\ dpl.pc = "building"
    /\ dpl' = [dpl EXCEPT !.pc = "deploying",
                          !.stream = DeployWritten(dpl, << ProgressEvent("Image built successfully") >>)]
    /\ UNCHANGED << runningProcesses, deployOthers >>

\* deployToCloudRunSDK resolved: complete, then [DONE].
DeployDeployed ==
    /\ dpl.pc = "deploying"
    /\ dpl' = [dpl EXCEPT !.pc = "finally",
                          !.stream = DeployWritten(dpl, << DeployCompleteEvent, DoneMarker >>)]
    /\ UNCHANGED << runningProcesses, deployOthers >>

\* The build or the deployment threw: error, then [DONE].
DeployFailed ==
    /\ dpl.pc \in {"building", "deploying"}
    /\ dpl' = [dpl EXCEPT !.pc = "finally",
                          !.stream = DeployWritten(dpl, << ErrorEvent(<<"Deployment failed">>),
                                                           DoneMarker >>)]
    /\ UNCHANGED << runningProcesses, deployOthers >>

\* finally: runningProcesses.delete(requestId); writer.close().
DeployFinally ==
    /\ dpl.pc = "finally"
    /\ runningProcesses' = DeployUntrack(runningProcesses, DeployId)
    /\ dpl' = [dpl EXCEPT !.pc = "closed"]
    /\ UNCHANGED deployOthers

NextDeploy ==
    \/ DeployPost
    \/ DeployRequestIdWritten
    \/ DeployRequestIdFailed
    \/ DeployClientDisconnect
    \/ DeployBuilt
    \/ DeployDeployed
    \/ DeployFailed
    \/ DeployFinally
    \/ \E e \in Execs : Post(e)
    \/ \E e \in Execs : RequestIdWritten(e)
    \/ \E e \in Execs : Connected(e)
    \/ \E e \in Execs : WrapperWritesPid(e)
    \/ \E e \in Execs : CommandExits(e, 0)
    \/ \E e \in Execs : WrapperReaps(e)
    \/ \E e \in Execs : WaitResolved(e)
    \/ \E e \in Execs : WriteDone(e)
    \/ \E e \in Execs : CloseWriter(e)
    \/ \E c \in Cancels : CancelRequest(c, DeployId)

SpecDeploy == Init /\ [][NextDeploy]_vars


(***************************************************************************)
(* Properties.                                                             *)
(***************************************************************************)
Types(e) == [i \in 1..Len(stream[e]) |-> stream[e][i].type]
Positions(e, types) == {i \in 1..Len(stream[e]) : stream[e][i].type \in types}
Finished(e) == pc[e] \in {"terminal", "done", "closed"}

\* C1: the first chunk on every execution's stream is the request_id event
\* carrying the requestId generated for that execution; nothing precedes it.
C1_RequestIdFirst ==
    \A e \in Execs :
        stream[e] # <<>> =>
            /\ stream[e][1].type = "request_id"
            /\ stream[e][1].requestId = e

\* A stream that ran through output and a terminal event.
C1_Witness ==
    \E e \in Execs :
        /\ pc[e] = "closed"
        /\ Positions(e, {"progress"}) # {}
        /\ Positions(e, {"complete"}) # {}

\* C2 (as claimed): on a stream that reached its end with the caller still
\* attached, exactly one event of type error or complete was written.
C2_ExactlyOneTerminal ==
    \A e \in Execs :
        (closed[e] /\ ~clientGone[e]) =>
            Cardinality(Positions(e, {"error", "complete"})) = 1

\* The request_id event is out and the execution has neither ended nor been
\* cancelled.
InFlight(e) ==
    /\ stream[e] # <<>>
    /\ ~Finished(e)
    /\ \A c \in Cancels : ~(cid[c] = e /\ cres[c] = "cancelled")

\* C3 (as claimed): from the request_id event until the execution completes,
\* errors or is cancelled, the registry holds its requestId, and no cancel of
\* that id is answered 'not found' in that interval.

C3_RegisteredWhileInFlight ==
    \A e \in Execs :
        InFlight(e) =>
            /\ MapHas(runningProcesses, e)
            /\ \A c \in Cancels : ~(cid[c] = e /\ cres[c] = "notfound")

\* C4 (as claimed): once a cancel of requestId has returned, with either
\* outcome, the registry never holds requestId again.
C4_AbsentAfterCancelReturned ==
    \A c \in Cancels :
        cpc[c] = "returned" => ~MapHas(runningProcesses, cid[c])

\* C5 (as claimed): a cancel whose kill round-trip never returns has
\* nevertheless removed the entry and answered 'cancelled'.
C5_CancelDoesNotAwaitKill ==
    \A c \in Cancels :
        cpc[c] = "hung" =>
            /\ cres[c] = "cancelled"
            /\ ~MapHas(runningProcesses, cid[c])

\* C6 (as claimed): of two cancels of one requestId, the second begun after
\* the first returned, the first answers 'cancelled' or 'not found' and the
\* second answers 'not found'.
C6_SecondCancelNotFound ==
    \A c, d \in Cancels :
        (c \in cafter[d] /\ cid[c] = cid[d] /\ cpc[d] = "returned") =>
            /\ cres[c] \in {"cancelled", "notfound"}
            /\ cres[d] = "notfound"

\* A cancel that found the entry of an execution which then completed by
\* itself, both being over.
FoundEntry(c) == cpc[c] # "idle" /\ cres[c] # "notfound" /\ cid[c] \in Execs
CompletedNaturally(e) == Finished(e) /\ proc[e] = "exited"
RaceOver(c) == FoundEntry(c) /\ cpc[c] = "returned" /\ CompletedNaturally(cid[c])

C7_RaceOverState ==
    \A c \in Cancels :
        RaceOver(c) => cres[c] = "cancelled" /\ ~MapHas(runningProcesses, cid[c])

C7_CancelAfterRace ==
    \A c, d \in Cancels :
        (RaceOver(c) /\ CancelRequest(d, cid[c])) =>
            cres'[d] = "notfound" /\ cpc'[d] = "returned"

\* C7: when a cancel of id found the entry and execution id completes by
\* itself, then once both are over the entry is gone and the cancel answered
\* 'cancelled' (nothing was thrown), and every cancel of id begun from then on
\* is answered 'not found'.
C7_RaceSafe == [](C7_RaceOverState) /\ [][C7_CancelAfterRace]_vars

\* The cancel was still in flight when the command ended by itself, and a
\* later cancel followed.
C7_Witness ==
    \E c, d \in Cancels :
        /\ RaceOver(c)
        /\ ~cancelledLive[cid[c]]
        /\ signals = {}
        /\ c \in cafter[d] /\ cid[d] = cid[c] /\ cres[d] = "notfound"

\* C8 (as claimed): when 'cancelled' is answered while the remote command has
\* not completed, the stream never carries `complete`.
C8_CancelledNeverCompletes ==
    \A e \in Execs :
        cancelledLive[e] => Positions(e, {"complete"}) = {}

\* The error events of executions that end with a non-zero status by themselves.
SelfExitFailureEvents == {ErrorEvent(MsgExited(code)) : code \in NaturalExitCodes \ {0}}

\* C9 (as claimed): the error event of an execution terminated by a cancel is
\* never one that an execution failing by itself produces.

C9_CancelErrorDistinct ==
    \A e \in Execs :
        (proc[e] = "killed" /\ Finished(e)) =>
            \A i \in Positions(e, {"error"}) : stream[e][i] \notin SelfExitFailureEvents

\* One step of the cancel handler on an id that has no entry.
C10_AbsentStep ==
    \A c \in Cancels : \A id \in RequestIds :
        (CancelRequest(c, id) /\ ~MapHas(runningProcesses, id)) =>
            /\ cres'[c] = "notfound"
            /\ cpc'[c] = "returned"
            /\ runningProcesses' = runningProcesses
            /\ signals' = signals
            /\ killed' = killed
            /\ proc' = proc

\* C10: a cancel of an id without a registry entry (never issued, or its
\* execution over) answers 'not found' at once, throws nothing, signals no
\* remote process and leaves the registry as it is.
C10_NotFoundIsInert == [][C10_AbsentStep]_vars

\* Both kinds of absent id: never issued, and issued to a finished execution.
C10_Witness ==
    \E c, d \in Cancels :
        /\ cid[c] = NeverIssued /\ cres[c] = "notfound"
        /\ cid[d] \in Execs /\ cres[d] = "notfound" /\ pc[cid[d]] = "closed"
        /\ c \in cafter[d]

(***************************************************************************)
(* Line classification (SpecClassify).                                     *)
(***************************************************************************)
Progress(msg) == [type |-> "progress", message |-> msg]
ReadToolUse == [type |-> "tool_use", name |-> "Read", input |-> "{file_path:a.txt}"]
ReadJson == "json:{name:Read,input:{file_path:a.txt}}"
Blank(line) == \A i \in 1..Len(line) : line[i] = WS
HasMarker(line) ==
    \E m \in {SessionMarker, ClaudeMarker, ToolUseMarker, ToolResultMarker} : Includes(line, m)
HasFiltered(line) ==
    \E f \in {ClaudeTag, ToolTag, DoubleUnderscore} : Includes(line, f)
HasErrorWord(line) == Includes(line, ErrorWord) \/ Includes(line, FailedWord)
\* What follows the i-th token, trimmed.
Rest(line, i) == Trim(SubSeq(line, i + 1, Len(line)))
FirstAt(line, tok, i) == line[i] = tok /\ \A j \in 1..(i-1) : line[j] # tok
ToolUseThenJson(line) == \E i \in 1..Len(line) : line[i] = ToolUseMarker /\ Rest(line, i) = <<ReadJson>>
FirstToolUseThenJson(line) ==
    \E i \in 1..Len(line) : FirstAt(line, ToolUseMarker, i) /\ Rest(line, i) = <<ReadJson>>
ClsStdout == cls.applied /\ cls.chan = "stdout"
ClsStderr == cls.applied /\ cls.chan = "stderr"

\* C13 as stated: a stdout line with the tool-invocation marker followed by a
\* JSON object {name, input} yields one tool_use event with that name and
\* input; a stdout line with no marker and no filtered substring yields one
\* progress event with the trimmed line; a stderr line containing 'Error' or
\* 'Failed' yields one error event.
C13_AsStated ==
    /\ ClsStdout /\ ToolUseThenJson(cls.line) => cls.events = <<ReadToolUse>>
    /\ ClsStdout /\ ~HasMarker(cls.line) /\ ~HasFiltered(cls.line)
          => cls.events = <<Progress(Trim(cls.line))>>
    /\ ClsStderr /\ HasErrorWord(cls.line)
          => Len(cls.events) = 1 /\ cls.events[1].type = "error"

\* C13, amended: the tool_use rule applies to a line without a session-started
\* or AI-message marker whose first tool-invocation marker is followed by
\* exactly the JSON object; the progress rule applies to a line that is not
\* blank; the stderr rule holds as stated.
C13_Classification ==
    /\ ClsStdout /\ FirstToolUseThenJson(cls.line)
          /\ ~Includes(cls.line, SessionMarker) /\ ~Includes(cls.line, ClaudeMarker)
          => cls.events = <<ReadToolUse>>
    /\ ClsStdout /\ ~HasMarker(cls.line) /\ ~HasFiltered(cls.line) /\ ~Blank(cls.line)
          => cls.events = <<Progress(Trim(cls.line))>>
    /\ ClsStderr /\ HasErrorWord(cls.line)
          => cls.events = << [type |-> "error", message |-> Trim(cls.line)] >>

C13_Witness ==
    /\ ClsStdout /\ cls.line = <<ToolUseMarker, WS, ReadJson>>
    /\ cls.events = <<ReadToolUse>>

\* The payload of a structured line cannot be parsed: the branch handleOutput
\* takes is the session-started one and no id follows a marker, or it is the
\* AI-message / tool-invocation one and what follows the first marker is not
\* one JSON value.
NoSessionId(line) ==
    \A i \in 1..Len(line) :
        line[i] = SessionMarker =>
            \/ TrimLeft(SubSeq(line, i + 1, Len(line))) = <<>>
            \/ Head(TrimLeft(SubSeq(line, i + 1, Len(line)))) \notin SessionIdTokens
BadJsonAfterFirst(line, marker) ==
    \E i \in 1..Len(line) :
        /\ FirstAt(line, marker, i)
        /\ ~(Len(Rest(line, i)) = 1 /\ Rest(line, i)[1] \in JsonTokens)
Unparsable(line) ==
    \/ Includes(line, SessionMarker) /\ NoSessionId(line)
    \/ ~Includes(line, SessionMarker) /\ BadJsonAfterFirst(line, ClaudeMarker)
    \/ /\ ~Includes(line, SessionMarker) /\ ~Includes(line, ClaudeMarker)
       /\ BadJsonAfterFirst(line, ToolUseMarker)

\* C18 as stated: a structured line whose payload cannot be parsed is
\* re-emitted as a progress event carrying the raw line.
C18_AsStated ==
    ClsStdout /\ ~Blank(cls.line) /\ Unparsable(cls.line)
        => Len(cls.events) = 1 /\ cls.events[1].type = "progress"

\* C18, amended: a structured line whose payload cannot be parsed yields no
\* event at all (and handleOutput returns normally).
C18_UnparsableDropped ==
    ClsStdout /\ Unparsable(cls.line) => cls.events = <<>>

C18_Witness ==
    ClsStdout /\ cls.line = <<ToolUseMarker, WS, MalformedJson>> /\ cls.events = <<>>

\* C19 as stated: every non-empty line that contains none of the four markers
\* and is not a stderr line containing 'Error' or 'Failed' yields exactly one
\* progress event.
C19_AsStated ==
    /\ cls.applied /\ ~Blank(cls.line) /\ ~HasMarker(cls.line)
    /\ ~(cls.chan = "stderr" /\ HasErrorWord(cls.line))
    => Len(cls.events) = 1 /\ cls.events[1].type = "progress"

\* C19, amended: a non-blank stdout line with none of the four markers yields
\* exactly one progress event, carrying the trimmed line, when it contains
\* none of '[Claude]:', '[Tool]:' and '__', and no event when it contains one
\* of them; a stderr line without 'Error' and 'Failed' yields no event.
C19_ProgressOrDropped ==
    /\ ClsStdout /\ ~Blank(cls.line) /\ ~HasMarker(cls.line)
          => cls.events = IF HasFiltered(cls.line) THEN <<>> ELSE <<Progress(Trim(cls.line))>>
    /\ ClsStderr /\ ~HasErrorWord(cls.line) => cls.events = <<>>

C19_Witness ==
    \/ ClsStdout /\ cls.line = <<ToolTag, "hello">> /\ cls.events = <<>>
    \/ ClsStderr /\ cls.line = <<"hello">> /\ cls.events = <<>>

(***************************************************************************)
(* The stream of a command that succeeds (SpecStream).                     *)
(***************************************************************************)
Events(e) == { stream[e][i] : i \in 1..Len(stream[e]) }
OnlyStdout(e) == \A i \in 1..Len(delivered[e]) : delivered[e][i].chan = "stdout"
\* The command of e wrote to stdout only, exited with 0, and the stream is over.
SucceededQuietly(e) ==
    /\ pc[e] = "closed" /\ ~clientGone[e]
    /\ OnlyStdout(e) /\ exitCode[e] = 0 /\ CompleteEvent \in Events(e)
    /\ \A c \in Cancels : ~FoundEntry(c)
RECURSIVE ProgressPerLine(_)
ProgressPerLine(chunks) ==
    IF chunks = <<>> THEN <<>>
    ELSE (IF Blank(Head(chunks).line) THEN <<>> ELSE <<Progress(Trim(Head(chunks).line))>>)
         \o ProgressPerLine(Tail(chunks))
RECURSIVE ProgressPerShownLine(_)
ProgressPerShownLine(chunks) ==
    IF chunks = <<>> THEN <<>>
    ELSE (IF Blank(Head(chunks).line) \/ HasFiltered(Head(chunks).line) \/ HasMarker(Head(chunks).line)
          THEN <<>> ELSE <<Progress(Trim(Head(chunks).line))>>)
         \o ProgressPerShownLine(Tail(chunks))

C12_TerminalLast ==
    \A e \in Execs : \A i \in 1..Len(stream[e]) :
        stream[e][i] = DoneMarker =>
            /\ i = Len(stream[e])
            /\ i > 1 /\ stream[e][i-1].type \in {"complete", "error"}

(***************************************************************************)
(* A caller that disconnects; a command that fails (Spec).                 *)
(***************************************************************************)
\* C14 as stated: even when the very first write fails the remote command is
\* still started: the job never ends without having started it.
C14_AsStated == \A e \in Execs : pc[e] = "aborted" => proc[e] # "none"

\* C14, amended: a failing request_id write ends the job before anything is
\* started or registered; a caller that disconnects later changes nothing:
\* the command is started, only a cancel request signals it, and its entry
\* is gone once the job has seen it end.
C14_DisconnectTolerated ==
    \A e \in Execs :
        clientGone[e] =>
            /\ pc[e] = "aborted" <=> (stream[e] = <<>> /\ pc[e] # "reqid")
            /\ pc[e] = "aborted" => proc[e] = "none" /\ ~MapHas(runningProcesses, e)
            /\ pc[e] = "waiting" => proc[e] # "none"
            /\ proc[e] = "killed" => \E c \in Cancels : FoundEntry(c)
            /\ Finished(e) => ~MapHas(runningProcesses, e)

C14_Witness ==
    \E e \in Execs :
        /\ clientGone[e] /\ pc[e] = "closed" /\ stream[e] # <<>>
        /\ proc[e] = "exited" /\ exitCode[e] = 0 /\ CompleteEvent \notin Events(e)
        /\ \A c \in Cancels : ~FoundEntry(c)
        /\ ~MapHas(runningProcesses, e)

\* C15 as stated: when the remote command fails, the entry is removed, the
\* final event of the stream is an error carrying the failure message (the
\* exit code for a non-zero exit), complete is never emitted and the stream
\* is closed.
FailureMessages(e) == {MsgExited(exitCode[e]), MsgRunFailed, MsgConnectFailed, MsgKilled}
C15_FailureStream ==
    \A e \in Execs :
        (pc[e] = "closed" /\ ~clientGone[e] /\ CompleteEvent \notin Events(e)) =>
            /\ ~MapHas(runningProcesses, e)
            /\ closed[e]
            /\ Len(stream[e]) > 1
            /\ stream[e][Len(stream[e])] = DoneMarker
            /\ stream[e][Len(stream[e]) - 1].type = "error"
            /\ stream[e][Len(stream[e]) - 1].message \in FailureMessages(e)

(***************************************************************************)
(* The rate limiter (SpecRate).                                            *)
(***************************************************************************)
\* The requests of key k let through at the instants t with lo <= t <= now.
PassedSince(k, lo) == Len(SelectSeq(passes[k], LAMBDA x : x >= lo))
Rejected == mw.status = "429"

\* C16 as stated: in every interval of RATE_LIMIT_WINDOW_MS instants at most
\* RATE_LIMIT_MAX_REQUESTS requests of one client reach the bridge endpoints.
C16_AsStated ==
    \A k \in ClientKeys :
        PassedSince(k, now - RATE_LIMIT_WINDOW_MS + 1) <= RATE_LIMIT_MAX_REQUESTS

\* C16, amended: the limit holds per window, a window being opened by the
\* first request of a client after its previous window expired and lasting
\* RATE_LIMIT_WINDOW_MS: at most RATE_LIMIT_MAX_REQUESTS requests pass in it,
\* and a request is answered 429, with the time to the end of the window as
\* Retry-After and without reaching the route handler, exactly when that
\* many have passed in the window.  An arbitrary interval of that length
\* overlaps two windows and lets up to twice as many requests through.
C16_PerWindow ==
    /\ \A k \in DOMAIN rateLimitStore :
          LET r == rateLimitStore[k]
          IN  /\ r.count \in 1..RATE_LIMIT_MAX_REQUESTS
              /\ ~Expired(r, now) =>
                    PassedSince(k, r.resetTime - RATE_LIMIT_WINDOW_MS) = r.count
    /\ \A k \in ClientKeys :
          PassedSince(k, now - RATE_LIMIT_WINDOW_MS + 1) <= 2 * RATE_LIMIT_MAX_REQUESTS
    /\ Rejected =>
          /\ ~mw.handler
          /\ MapHas(rateLimitStore, mw.key)
          /\ rateLimitStore[mw.key].count = RATE_LIMIT_MAX_REQUESTS
          /\ mw.retryAfter = rateLimitStore[mw.key].resetTime - mw.at
          /\ mw.retryAfter \in 0..RATE_LIMIT_WINDOW_MS

C16_Witness ==
    /\ Rejected /\ mw.key = "10.0.0.1" /\ mw.retryAfter = 1
    /\ PassedSince("10.0.0.1", now - RATE_LIMIT_WINDOW_MS) = RATE_LIMIT_MAX_REQUESTS

(***************************************************************************)
(* The sandbox OAuth callback (SpecCallback).                              *)
(***************************************************************************)
StateMismatch == Falsy(cb.state) \/ cb.state # cb.storedState
CallbackAnswered == cb.pc = "answered"

\* C17 as stated: a callback whose state is missing or differs from the
\* stored one is answered 403, and no token exchange is attempted for it.
C17_AsStated ==
    CallbackAnswered /\ StateMismatch => cb.status = "403" /\ cb.exchanges = 0

\* C17, amended: the code is exchanged only for a callback without an error
\* parameter whose state is present and equal to the stored one; a callback
\* whose state is missing or differs gets no token exchange and no redirect
\* carrying tokens, and is answered 403 unless it carries an error
\* parameter, which is handled first (redirect to the return URL with
\* oauth_error, or 400).
C17_StateChecked ==
    /\ cb.exchanges > 0 =>
          /\ ~Falsy(cb.state) /\ cb.state = cb.storedState
          /\ Falsy(cb.error) /\ ~Falsy(cb.code) /\ cb.exchanges = 1
    /\ cb.location = "done?access_token" => cb.exchanges = 1
    /\ CallbackAnswered /\ StateMismatch =>
          /\ cb.exchanges = 0
          /\ cb.location # "done?access_token"
          /\ cb.status = IF Falsy(cb.error) THEN "403"
                         ELSE IF Falsy(cb.returnUrl) THEN "400" ELSE "redirect"

C17_Witness ==
    /\ CallbackAnswered /\ cb.state = "state-1" /\ cb.storedState = "state-2"
    /\ cb.code = "code-1" /\ Falsy(cb.error) /\ cb.status = "403" /\ cb.exchanges = 0

(***************************************************************************)
(* The lifecycle of a registry entry (SpecFair).                           *)
(***************************************************************************)
Registered(e) == MapHas(runningProcesses, e)
Terminated(e) == proc[e] \in {"exited", "killed"}
PastConnecting(e) == pc[e] \notin {"idle", "reqid", "connecting"}
\* One step: an entry appears only when the job leaves `connecting`, a job
\* never returns there, and an entry that stays keeps its handle.
C20_Step ==
    \A e \in Execs :
        /\ ~Registered(e) /\ MapHas(runningProcesses', e) =>
              pc[e] = "connecting" /\ pc'[e] = "waiting"
        /\ PastConnecting(e) => pc'[e] \notin {"idle", "reqid", "connecting"}
        /\ Registered(e) /\ MapHas(runningProcesses', e) =>
              runningProcesses'[e] = runningProcesses[e]

\* C20: the registry holds at most one entry per requestId, the handle of
\* that execution; an entry is inserted at most once per execution and never
\* re-inserted after its removal; and an entry whose remote command has
\* terminated, by itself or killed, is eventually removed.
C20_Lifecycle ==
    /\ [](\A id \in DOMAIN runningProcesses :
             id \in Execs /\ runningProcesses[id] = E2BHandle(id))
    /\ [][C20_Step]_vars
    /\ \A e \in Execs : (Registered(e) /\ Terminated(e)) ~> ~Registered(e)

C20_Witness ==
    \E e \in Execs :
        /\ pc[e] = "terminal" /\ wpc[e] = "done" /\ proc[e] = "killed"
        /\ ~Registered(e) /\ \A c \in Cancels : cpc[c] # "returned"

(***************************************************************************)
(* The remote kill (Spec).                                                 *)
(***************************************************************************)
\* C21 as stated: no kill signal is sent to the PID of a command that has
\* already terminated.
C21_NoStaleSignal == \A s \in signals : s.alive

\* The execution e's process has been sent the signal sig.
Signalled(e, sig) == \E s \in signals : s.hit = e /\ s.sig = sig

\* C22 as stated: a sandbox command that is still alive after the graceful
\* termination signal of a cancel is eventually sent the forced one (SIGKILL),
\* unless it ends before that.
C22_ForcedKillFollows ==
    \A e \in Execs :
        (Signalled(e, "SIGTERM") /\ proc[e] = "alive")
            ~> (proc[e] # "alive" \/ Signalled(e, "SIGKILL"))

\* C23 as stated: once the kill signal has taken effect on an execution,
\* neither the command's subshell nor any process it started is still running.
C23_WholeGroupKilled == \A e \in Execs : proc[e] = "killed" => ~leftRunning[e]

(***************************************************************************)
(* The service name of a deployment (SpecSanitize).                        *)
(***************************************************************************)
\* C24 as stated: for every accepted branch name the service name is
\* non-empty, made of lowercase letters, digits and hyphens only, begins with a
\* letter, does not end with a hyphen and is shorter than the limit.
C24_ServiceNameValid ==
    svc.status = "named" =>
        /\ svc.name # <<>>
        /\ \A i \in 1..Len(svc.name) : svc.name[i] \in LowerCase \cup Digits \cup {"-"}
        /\ svc.name[1] \in LowerCase
        /\ svc.name[Len(svc.name)] # "-"
        /\ Len(svc.name) < MaxServiceNameLen

(***************************************************************************)
(* The order of the classification rules (SpecClassify).                   *)
(***************************************************************************)
\* The type of event the first matching rule of a stdout line stands for.
FirstRule(line) ==
    IF Includes(line, SessionMarker) THEN "session_id"
    ELSE IF Includes(line, ClaudeMarker) THEN "claude_message"
    ELSE IF Includes(line, ToolUseMarker) THEN "tool_use"
    ELSE IF Includes(line, ToolResultMarker) THEN "tool_result"
    ELSE "progress"

\* C25: every output line produces at most one event; the event of a stdout
\* line has the type of the first rule that matches in the order
\* session-started, AI-message, tool-invocation, tool-result, progress; a line
\* whose first matching rule is the tool-result one produces no event.
C25_FirstRuleWins ==
    /\ cls.applied => Len(cls.events) <= 1
    /\ ClsStdout => \A i \in 1..Len(cls.events) : cls.events[i].type = FirstRule(cls.line)
    /\ ClsStdout /\ FirstRule(cls.line) = "tool_result" => cls.events = <<>>

\* A line with the session-started and the tool-invocation payloads yields the
\* session event only.
C25_Witness ==
    /\ ClsStdout /\ cls.line = <<SessionMarker, "id:abc-123", ToolUseMarker>>
    /\ cls.events = << [type |-> "session_id", sessionId |-> "id:abc-123"] >>

(***************************************************************************)
(* Concurrent cancel requests (Spec).                                      *)
(***************************************************************************)
\* The cancel requests for execution e that were answered 'cancelled', and
\* those that called the handle's kill.
AnsweredCancelled(e) == {c \in Cancels : cpc[c] # "idle" /\ cid[c] = e /\ cres[c] = "cancelled"}
StartedKill(e) == {c \in Cancels : FoundEntry(c) /\ cid[c] = e}

\* C26 as stated: among the cancel requests for one requestId, overlapping
\* ones included, at most one is answered 'cancelled' and the remote kill
\* sequence is started at most once.
C26_AtMostOneCancelled ==
    \A e \in Execs :
        /\ Cardinality(AnsweredCancelled(e)) <= 1
        /\ Cardinality(StartedKill(e)) <= 1

\* C27 as stated: whenever 'cancelled' is answered for an execution whose
\* remote command is still running, a termination signal has been sent to that
\* command's process.
C27_CancelledMeansSignalled ==
    \A e \in Execs : cancelledLive[e] => Signalled(e, "SIGTERM")

(***************************************************************************)
(* Two executions (SpecPair).                                              *)
(***************************************************************************)
\* The step is one of the cancel handler working on execution a, or one of
\* a's own job.
CancelStepOf(a) == \E c \in Cancels : cpc'[c] # cpc[c] /\ cid'[c] = a
JobStepOf(a) == pc'[a] # pc[a]

\* What belongs to execution b is the same after the step.
Untouched(b) ==
    /\ MapHas(runningProcesses', b) = MapHas(runningProcesses, b)
    /\ proc'[b] = proc[b]
    /\ \A s \in signals' \ signals : s.hit # b
    /\ pidFile'[b] = pidFile[b]
    /\ stream'[b] = stream[b]

\* C28 as stated: for two distinct executions in flight, a step of
\* cancelExecution for the one, or of its completion, leaves the other's
\* registry entry, remote process, PID file and stream as they are.
C28_Independent ==
    [][ \A a, b \in AllExecs :
          (a # b /\ InFlight(a) /\ InFlight(b) /\ (CancelStepOf(a) \/ JobStepOf(a)))
              => Untouched(b) ]_vars

(***************************************************************************)
(* The browser client (SpecClient).                                        *)
(***************************************************************************)
ErrorMessages == {i \in 1..Len(chat.messages) : chat.messages[i].type = "error"}

\* C29 as stated: every error event the client receives on the stream has an
\* error message appended to the chat and the query marked as no longer
\* processing; none is discarded.
C29_ErrorShown ==
    chat.errorEvents > 0 =>
        /\ Cardinality(ErrorMessages) >= 1
        /\ ~chat.isQueryProcessing

(***************************************************************************)
(* Deployments and the registry (SpecDeploy).                              *)
(***************************************************************************)
\* The cancel request c carries the deployment's requestId.
CancelOfDeploy(c) == cpc[c] # "idle" /\ cid[c] = DeployId

\* C30: the deployment writes a request_id event first; the registry never
\* holds the deployment's requestId and no step of the deployment changes the
\* registry; a cancel request with that requestId is answered 'not found' and
\* leaves the deployment as it is.
C30_DeployNotCancellable ==
    [][ /\ dpl'.stream # <<>> => dpl'.stream[1] = RequestIdEvent(DeployId)
        /\ ~MapHas(runningProcesses', DeployId)
        /\ dpl' # dpl => runningProcesses' = runningProcesses
        /\ \A c \in Cancels :
              cpc'[c] # "idle" /\ cid'[c] = DeployId =>
                  /\ cres'[c] = "notfound" /\ cpc'[c] = "returned"
                  /\ cpc[c] = "idle" => dpl' = dpl /\ runningProcesses' = runningProcesses ]_vars

\* A cancel with the deployment's requestId was answered 'not found' while the
\* deployment ran; the deployment went on to its end and the registry still
\* holds the entry of a running execution.
C30_Witness ==
    /\ \E c \in Cancels : CancelOfDeploy(c) /\ cres[c] = "notfound" /\ cafter[c] = {}
    /\ \E c \in Cancels : CancelOfDeploy(c) /\ cafter[c] # {}
    /\ dpl.pc = "closed"
    /\ \E i \in 1..Len(dpl.stream) : dpl.stream[i] = DeployCompleteEvent
    /\ \E e \in Execs : MapHas(runningProcesses, e)

=============================================================================
